---- MODULE Spec2Model ----
(***************************************************************************)
(* The three notebooks of PlanetaryComputerExamples as one state machine.  *)
(*                                                                         *)
(*   data_api   src/unnamed/part_000  (Using the Planetary Computer's Data *)
(*              API: item preview, item TileJSON map, mosaic map)          *)
(*   browser    src/unnamed/part_001  (Interactively browse STAC           *)
(*              footprints: ipywidgets.interact over a list of items)      *)
(*   chesapeake src/datasets/chesapeake/chesapeake-example.ipynb           *)
(*                                                                         *)
(* A run executes the code cells of one notebook top to bottom, as the     *)
(* recorded execution counts 1..n show; a cell that raises ends the run.   *)
(* The state is the kernel namespace ns (name -> value), the position pc,  *)
(* and the environment the notebook talks to: the HTTP exchanges (http),   *)
(* the displayed outputs (outputs), and for the browser the dropdown in    *)
(* the front end and the selection messages on their way to the kernel.    *)
(* The remote service is outside the repository: each request draws its    *)
(* response from a small set of bodies of the shape the endpoint returns,  *)
(* an error status with a JSON or non-JSON body, or no response at all.    *)
(*                                                                         *)
(* Strings that the code concatenates (URLs) are sequences of pieces, so   *)
(* an f-string is the concatenation \o of its parts.                       *)
(***************************************************************************)
EXTENDS Integers, Sequences, FiniteSets, TLC

VARIABLES
    nb,        \* the notebook this kernel runs
    pc,        \* index in Cells(nb) of the next cell to execute
    status,    \* "running" | "done" | "error" (a cell raised: the run stopped)
    ns,        \* kernel namespace: a function from the bound names to values
    http,      \* the HTTP exchanges so far, in order
    outputs,   \* what the cells displayed or printed, in order
    access,    \* which unit of execution created / read / wrote which object
    selected,  \* browser front end: index shown in the dropdown (0: none)
    msgs,      \* browser: selection messages sent and not yet handled
    calls,     \* browser: invocations of browse so far, in order
    inflight   \* HTTP requests sent and not yet answered (kernel and front end)

vars == <<nb, pc, status, ns, http, outputs, access, selected, msgs, calls, inflight>>

(***************************************************************************)
(* Bounds of the model                                                     *)
(***************************************************************************)
\* longest list the remote service returns (tiles, links, renderOptions)
MaxList == 2
\* most items a search returns in the model
MaxItems == 2
\* most dropdown selections a user makes in one run
MaxSelect == 3

SeqsUpTo(S, n) == UNION {[1..k -> S] : k \in 0..n}

(***************************************************************************)
(* Python dictionaries and the kernel namespace                            *)
(***************************************************************************)
HasKey(d, k) == k \in DOMAIN d

Bind(space, name, value) == (name :> value) @@ space

Bound(name) == name \in DOMAIN ns

(***************************************************************************)
(* The notebooks and their code cells, top to bottom                       *)
(***************************************************************************)
Notebooks == {"data_api", "browser", "chesapeake"}

DataApiCells_MapBeforeTiles ==
    << "item", "preview", "tilejson_href", "item_tilejson", "item_tiles",
       "item_map", "search", "register", "tilejson_url", "mosaic_info",
       "mosaic_map", "mosaic_tiles" >>

DataApiCells_MapTwice ==
    << "item", "preview", "tilejson_href", "item_tilejson", "item_tiles",
       "item_map", "search", "register", "tilejson_url", "mosaic_info",
       "mosaic_tiles", "mosaic_map", "item_map" >>

DataApiCells ==
    << "item", "preview", "tilejson_href", "item_tilejson", "item_tiles",
       "item_map", "search", "register", "tilejson_url", "mosaic_info",
       "mosaic_tiles", "mosaic_map" >>

BrowserCells == << "items", "browser" >>

ChesapeakeCells ==
    << "query", "asset_href", "tables", "classes", "classmap", "colormap", "open", "plot" >>

Cells(n) ==
    IF n = "data_api" THEN DataApiCells
    ELSE IF n = "browser" THEN BrowserCells
    ELSE ChesapeakeCells

(***************************************************************************)
(* HTTP: what requests.get / requests.post can come back with.  No cell    *)
(* calls raise_for_status(), so an error status is an ordinary Response.   *)
(***************************************************************************)
NoBody == [none |-> TRUE]

ErrorBody == [detail |-> "Internal Server Error"]

\* no response: requests raises ConnectionError / Timeout
NoResponse == [status |-> "none", json |-> FALSE, body |-> NoBody]

\* an error status, with a JSON error body or with a body that is not JSON
ErrorResponses ==
    { [status |-> "500", json |-> TRUE, body |-> ErrorBody],
      [status |-> "502", json |-> FALSE, body |-> NoBody] }

Ok(body) == [status |-> "200", json |-> TRUE, body |-> body]

Failures == {NoResponse} \cup ErrorResponses

RequestRaises_ForStatus(resp) == resp.status # "200"

\* requests.get / requests.post raise only when no response arrives
RequestRaises(resp) == resp.status = "none"

Exchange(cell, method, url, resp) ==
    [cell |-> cell, method |-> method, url |-> url, resp |-> resp]

Shown(cell, what, value) == [cell |-> cell, what |-> what, value |-> value]

Access(unit, obj, mode) == [unit |-> unit, obj |-> obj, mode |-> mode]

(***************************************************************************)
(* The remote service (not part of the repository): the bodies it returns  *)
(***************************************************************************)
StacApi == "https://planetarycomputer.microsoft.com/api/stac/v1"
DataApi == "https://planetarycomputer.microsoft.com/api/data/v1"

Rect(minx, miny, maxx, maxy) ==
    [ type |-> "Polygon",
      coordinates |-> << << <<minx, miny>>, <<maxx, miny>>, <<maxx, maxy>>,
                            <<minx, maxy>>, <<minx, miny>> >> >> ]

\* a STAC item as JSON, as the item and search endpoints deliver it
ItemDict(id, coll, box) ==
    [ type |-> "Feature",
      id |-> id,
      collection |-> coll,
      bbox |-> box,
      geometry |-> Rect(box[1], box[2], box[3], box[4]),
      properties |-> [datetime |-> "2022-06-06T08:06:09Z"],
      assets |->
        [ rendered_preview |->
            [href |-> <<DataApi, "/item/preview.png?collection=", coll, "&item=", id>>],
          tilejson |->
            [href |-> <<DataApi, "/item/tilejson.json?collection=", coll, "&item=", id>>] ] ]

ItemId == "S2B_MSIL2A_20220606T080609_R078_T36PUR_20220606T193343"

ItemBoxes == { <<30, 8, 32, 10>>, <<-124, 78, -120, 84>> }

\* GET <stac api>/collections/<collection>/items/<id>: the item of that
\* collection with that id
ItemResponses(url) ==
    { Ok(ItemDict(url[5], url[3], box)) : box \in ItemBoxes } \cup Failures

TileScales == {"@1x", "@2x"}

ItemTileTemplates(coll, id) ==
    { <<DataApi, "/item/tiles/WebMercatorQuad/{z}/{x}/{y}", s, "?collection=", coll, "&item=", id>> :
        s \in TileScales }

MosaicTileTemplates(sid, qs) ==
    { <<DataApi, "/mosaic/tiles/", sid, "/WebMercatorQuad/{z}/{x}/{y}", s>> \o qs :
        s \in TileScales }

TileJSON(tiles) ==
    [tilejson |-> "2.2.0", version |-> "1.0.0", scheme |-> "xyz", tiles |-> tiles]

SearchIds == {"3c377cdaf6bddee4f5379ee6707505fd", "a0b1"}

Link(rel, href) == [rel |-> rel, type |-> "application/json", href |-> href]

MosaicLinks(sid) ==
    { Link("metadata", <<DataApi, "/mosaic/", sid, "/info">>),
      Link("tilejson", <<DataApi, "/mosaic/", sid, "/tilejson.json">>) }

RegisterResponses ==
    UNION { { Ok([searchid |-> sid, links |-> l]) : l \in SeqsUpTo(MosaicLinks(sid), MaxList) } :
            sid \in SearchIds }
    \cup Failures

RenderOptions ==
    { [ name |-> "Natural color",
        options |-> "assets=B04&assets=B03&assets=B02&nodata=0&color_formula=Gamma RGB 3.2 Saturation 0.8 Sigmoidal RGB 25 0.35",
        minZoom |-> 9 ],
      [ name |-> "", options |-> "", minZoom |-> -1 ] }

MosaicInfoResponses ==
    { Ok([renderOptions |-> ro]) : ro \in SeqsUpTo(RenderOptions, MaxList) } \cup Failures

\* GET <url>: what the data API answers, by the endpoint the URL names
TilejsonResponses(url) ==
    IF Len(url) >= 2 /\ url[2] \in {"/item/tilejson.json?collection="}
    THEN { Ok(TileJSON(t)) : t \in SeqsUpTo(ItemTileTemplates(url[3], url[5]), MaxList) }
         \cup Failures
    ELSE IF Len(url) >= 4 /\ url[2] = "/mosaic/" /\ url[4] = "/tilejson.json"
    THEN { Ok(TileJSON(t)) :
             t \in SeqsUpTo(MosaicTileTemplates(url[3], SubSeq(url, 5, Len(url))), MaxList) }
         \cup Failures
    ELSE IF Len(url) >= 4 /\ url[2] = "/mosaic/" /\ url[4] = "/info"
    THEN { Ok([search |-> url[3]]) } \cup Failures
    ELSE Failures

(***************************************************************************)
(* Library calls the cells make                                            *)
(***************************************************************************)
ItemKeys == {"type", "id", "collection", "bbox", "geometry", "properties", "assets"}

\* pystac.Item.from_dict: the Item object of an item dictionary
from_dict(d) ==
    [ id |-> d.id,
      collection_id |-> d.collection,
      bbox |-> d.bbox,
      geometry |-> d.geometry,
      properties |-> d.properties,
      datetime |-> d.properties.datetime,
      assets |-> d.assets ]

\* r.json(): raises unless the body is JSON
JsonFails(resp) == ~resp.json

Min(S) == CHOOSE x \in S : \A y \in S : x <= y
Max(S) == CHOOSE x \in S : \A y \in S : x >= y

\* shapely: centroid (x, y) of a polygon; the rings of the model are
\* axis-aligned rectangles with even coordinate sums, so this is exact
Centroid(geom) ==
    LET ring == geom.coordinates[1]
        xs == {ring[i][1] : i \in DOMAIN ring}
        ys == {ring[i][2] : i \in DOMAIN ring}
    IN  << (Min(xs) + Max(xs)) \div 2, (Min(ys) + Max(ys)) \div 2 >>

Basemap ==
    <<"https://server.arcgisonline.com/ArcGIS/rest/services/World_Shaded_Relief/MapServer/tile/{z}/{y}/{x}">>

\* folium.TileLayer(tiles, attr, min_zoom=0)
TileLayer(tiles, attr, min_zoom) ==
    [kind |-> "TileLayer", tiles |-> tiles, attr |-> attr, min_zoom |-> min_zoom]

\* folium.GeoJson(data)
GeoJson(data) == [kind |-> "GeoJson", data |-> data]

\* folium.Map(location, zoom_start, tiles, attr): a map with its base layer
Map(location, zoom_start) ==
    [ location |-> location, zoom_start |-> zoom_start,
      layers |-> << TileLayer(Basemap, "Basemap &copy; Esri &mdash; Source: Esri", 0) >> ]

\* layer.add_to(m)
add_to(layer, m) == [m EXCEPT !.layers = Append(@, layer)]

(***************************************************************************)
(* The request statements of the cells                                     *)
(***************************************************************************)
\* the cells whose request statement calls requests.get / requests.post
DirectRequestCells ==
    {"item", "item_tilejson", "register", "mosaic_info", "mosaic_tiles", "classmap"}

\* the statements of a cell that issue HTTP requests: the calls of requests,
\* Client.open, item_collection / get_items, get_collection, open_rasterio
RequestStatements(cell) ==
    IF cell \in DirectRequestCells \cup {"search", "classes", "open"} THEN 1
    ELSE IF cell \in {"items", "query"} THEN 2
    ELSE 0

(***************************************************************************)
(* Running a cell                                                          *)
(***************************************************************************)
Running(n, cell) ==
    /\ nb = n
    /\ status = "running"
    /\ pc \in DOMAIN Cells(n)
    /\ Cells(n)[pc] = cell

\* an HTTP request on its way: by the kernel (requests, pystac_client,
\* rioxarray) or by the front end that renders a displayed image or map
Request(by, cell, method, url) == [by |-> by, cell |-> cell, method |-> method, url |-> url]

KernelRequests == {r \in inflight : r.by = "kernel"}

\* what the front end requests from the Planetary Computer to render an
\* output: the image of Image(url=) and the tiles of the Planetary Computer
\* layer of a folium map (requests to the base map servers are left out)
Loads(out) ==
    IF out.what = "Image" THEN {Request("frontend", out.cell, "GET", out.value)}
    ELSE IF out.what = "m" /\ nb = "data_api"
    THEN { Request("frontend", out.cell, "GET", out.value.layers[i].tiles) :
             i \in {j \in DOMAIN out.value.layers :
                      /\ out.value.layers[j].kind = "TileLayer"
                      /\ out.value.layers[j].attr = "Planetary Computer"} }
    ELSE {}

\* the cell ends: normally (the next cell is up) or by raising (the run stops).
\* A cell with a request statement ends after the response to the request it
\* was waiting for; further requests of the same cell (the search after the
\* catalog root, the SAS token after the search) are sent and answered one
\* after the other within this step.  What the cell displayed is rendered
\* by the front end, which sends its own requests.
CellEnds(raised, space, exchanges, shown, accesses) ==
    /\ RequestStatements(Cells(nb)[pc]) > 0 =>
        /\ KernelRequests # {}
        /\ \A r \in KernelRequests :
            /\ r.cell = Cells(nb)[pc]
            /\ exchanges # << >>
            /\ r.method = exchanges[1].method
            /\ r.url = exchanges[1].url
    /\ inflight' = (inflight \ KernelRequests)
                    \cup UNION {Loads(shown[i]) : i \in DOMAIN shown}
    /\ ns' = space
    /\ http' = http \o exchanges
    /\ outputs' = outputs \o shown
    /\ access' = access \cup accesses
    /\ IF raised
       THEN pc' = pc /\ status' = "error"
       ELSE /\ pc' = pc + 1
            /\ status' = IF pc = Len(Cells(nb)) THEN "done" ELSE "running"
    /\ UNCHANGED nb

Obj(name, cell) == [name |-> name, by |-> cell]

(***************************************************************************)
(* Data API notebook, src/unnamed/part_000                                 *)
(***************************************************************************)
ItemUrl_OtherCollection == <<StacApi, "/collections/", "landsat-c2-l2", "/items/", ItemId>>

ItemUrl == <<StacApi, "/collections/", "sentinel-2-l2a", "/items/", ItemId>>

\* r = requests.get(<item url>); item = pystac.Item.from_dict(r.json());
\* asset = item.assets["rendered_preview"]; print(asset.href)
CellItem ==
    /\ Running("data_api", "item")
    /\ \E resp \in ItemResponses(ItemUrl) :
        LET ex == << Exchange("item", "GET", ItemUrl, resp) >>
            withR == Bind(ns, "r", resp)
            it == from_dict(resp.body)
            newR == {Access("item", Obj("r", "item"), "new")}
        IN  IF RequestRaises(resp)
            THEN CellEnds(TRUE, ns, ex, << >>, {})
            ELSE IF JsonFails(resp) \/ ~(ItemKeys \subseteq DOMAIN resp.body)
            THEN CellEnds(TRUE, withR, ex, << >>, newR)
            ELSE CellEnds(FALSE,
                          Bind(Bind(withR, "item", it), "asset", it.assets.rendered_preview),
                          ex,
                          << Shown("item", "asset.href", it.assets.rendered_preview.href) >>,
                          newR \cup { Access("item", Obj("item", "item"), "new"),
                                      Access("item", Obj("item", "item"), "read") })
    /\ UNCHANGED <<selected, msgs, calls>>

\* Image(url=item.assets["rendered_preview"].href)
CellPreview ==
    /\ Running("data_api", "preview")
    /\ CellEnds(FALSE, ns, << >>,
                << Shown("preview", "Image", ns["item"].assets.rendered_preview.href) >>,
                {Access("preview", Obj("item", "item"), "read")})
    /\ UNCHANGED <<selected, msgs, calls>>

CellTilejsonHref_Spins ==
    /\ Running("data_api", "tilejson_href")
    /\ UNCHANGED vars

\* print(item.assets["tilejson"].href)
CellTilejsonHref ==
    /\ Running("data_api", "tilejson_href")
    /\ CellEnds(FALSE, ns, << >>,
                << Shown("tilejson_href", "href", ns["item"].assets.tilejson.href) >>,
                {Access("tilejson_href", Obj("item", "item"), "read")})
    /\ UNCHANGED <<selected, msgs, calls>>

CellItemTilejson_RebindsItem ==
    /\ Running("data_api", "item_tilejson")
    /\ LET url == ns["item"].assets.tilejson.href
       IN  \E resp \in TilejsonResponses(url) :
            LET ex == << Exchange("item_tilejson", "GET", url, resp) >>
            IN  IF RequestRaises(resp) \/ JsonFails(resp)
                THEN CellEnds(TRUE, ns, ex, << >>, {})
                ELSE CellEnds(FALSE, Bind(ns, "item", resp.body), ex,
                              << Shown("item_tilejson", "r", resp.body) >>, {})
    /\ UNCHANGED <<selected, msgs, calls>>

CellItemTilejson_Retries ==
    /\ Running("data_api", "item_tilejson")
    /\ LET url == ns["item"].assets.tilejson.href
       IN  \E first \in TilejsonResponses(url), resp \in TilejsonResponses(url) :
            LET ex == IF first.status = "200"
                      THEN << Exchange("item_tilejson", "GET", url, first) >>
                      ELSE << Exchange("item_tilejson", "GET", url, first),
                              Exchange("item_tilejson", "GET", url, resp) >>
                got == IF first.status = "200" THEN first ELSE resp
            IN  IF RequestRaises(got) \/ JsonFails(got)
                THEN CellEnds(TRUE, ns, ex, << >>, {})
                ELSE CellEnds(FALSE, Bind(ns, "r", got.body), ex,
                              << Shown("item_tilejson", "r", got.body) >>,
                              { Access("item_tilejson", Obj("item", "item"), "read"),
                                Access("item_tilejson", Obj("r", "item_tilejson"), "new") })
    /\ UNCHANGED <<selected, msgs, calls>>

\* r = requests.get(item.assets["tilejson"].href).json(); r
CellItemTilejson ==
    /\ Running("data_api", "item_tilejson")
    /\ LET url == ns["item"].assets.tilejson.href
           reads == {Access("item_tilejson", Obj("item", "item"), "read")}
       IN  \E resp \in TilejsonResponses(url) :
            LET ex == << Exchange("item_tilejson", "GET", url, resp) >>
            IN  IF RequestRaises(resp) \/ JsonFails(resp)
                THEN CellEnds(TRUE, ns, ex, << >>, reads)
                ELSE CellEnds(FALSE, Bind(ns, "r", resp.body), ex,
                              << Shown("item_tilejson", "r", resp.body) >>,
                              reads \cup {Access("item_tilejson", Obj("r", "item_tilejson"), "new")})
    /\ UNCHANGED <<selected, msgs, calls>>

CellItemTiles_Pops ==
    /\ Running("data_api", "item_tiles")
    /\ LET r == ns["r"]
           reads == { Access("item_tiles", Obj("r", "item_tilejson"), "read"),
                      Access("item_tiles", Obj("r", "item_tilejson"), "write") }
       IN  IF ~HasKey(r, "tiles") \/ Len(r.tiles) = 0
           THEN CellEnds(TRUE, ns, << >>, << >>, reads)
           ELSE CellEnds(FALSE,
                         Bind(Bind(ns, "tiles", r.tiles[1]),
                              "r", [r EXCEPT !.tiles = Tail(@)]),
                         << >>, << >>, reads)
    /\ UNCHANGED <<selected, msgs, calls>>

\* tiles = r["tiles"][0]
CellItemTiles ==
    /\ Running("data_api", "item_tiles")
    /\ LET r == ns["r"]
           reads == {Access("item_tiles", Obj("r", "item_tilejson"), "read")}
       IN  IF ~HasKey(r, "tiles") \/ Len(r.tiles) = 0
           THEN CellEnds(TRUE, ns, << >>, << >>, reads)
           ELSE CellEnds(FALSE, Bind(ns, "tiles", r.tiles[1]), << >>, << >>, reads)
    /\ UNCHANGED <<selected, msgs, calls>>

\* center = ((item.bbox[1] + item.bbox[3]) / 2, (item.bbox[0] + item.bbox[2]) / 2)
\* m = folium.Map(location=center, zoom_start=11, ...)
\* folium.TileLayer(tiles=tiles, attr="Planetary Computer").add_to(m); m
CellItemMap ==
    /\ Running("data_api", "item_map")
    /\ LET bbox == ns["item"].bbox
           center == << (bbox[2] + bbox[4]) \div 2, (bbox[1] + bbox[3]) \div 2 >>
           m == add_to(TileLayer(ns["tiles"], "Planetary Computer", 0), Map(center, 11))
       IN  CellEnds(FALSE, Bind(Bind(ns, "center", center), "m", m), << >>,
                    << Shown("item_map", "m", m) >>,
                    { Access("item_map", Obj("item", "item"), "read"),
                      Access("item_map", Obj("m", "item_map"), "new"),
                      Access("item_map", Obj("m", "item_map"), "write") })
    /\ UNCHANGED <<selected, msgs, calls>>

\* the area of interest of the mosaic (coordinates rounded to even integers)
aoi == Rect(28, 8, 32, 10)

query == [cloud_cover |-> [lt |-> "10"]]

RootUrl == <<StacApi>>

RootResponses == { Ok([type |-> "Catalog", id |-> "microsoft-pc"]) } \cup Failures

\* catalog.search(intersects=aoi, collections="sentinel-2-l2a", query=query):
\* the search object, whose get_parameters() are the body of the registration
search(collections, intersects, q) ==
    [collections |-> collections, intersects |-> intersects, query |-> q]

get_parameters(srch) == srch

\* catalog = pystac_client.Client.open(<stac api>); aoi = ...;
\* collection = "sentinel-2-l2a"; query = ...; search = catalog.search(...)
\* pystac_client raises on any response that is not a 200 with JSON
CellSearch ==
    /\ Running("data_api", "search")
    /\ \E resp \in RootResponses :
        LET ex == << Exchange("search", "GET", RootUrl, resp) >>
            space == Bind(Bind(Bind(Bind(Bind(ns,
                        "catalog", resp.body),
                        "aoi", aoi),
                        "collection", "sentinel-2-l2a"),
                        "query", query),
                        "search", search(<<"sentinel-2-l2a">>, aoi, query))
        IN  IF resp.status # "200" \/ JsonFails(resp)
            THEN CellEnds(TRUE, ns, ex, << >>, {})
            ELSE CellEnds(FALSE, space, ex, << >>,
                          {Access("search", Obj("search", "search"), "new")})
    /\ UNCHANGED <<selected, msgs, calls>>

RegisterUrl == <<DataApi, "/mosaic/register">>

\* r_register = requests.post(<register>, json=search.get_parameters())
\* registered = r_register.json(); registered
CellRegister ==
    /\ Running("data_api", "register")
    /\ \E resp \in RegisterResponses :
        LET ex == << Exchange("register", "POST", RegisterUrl, resp) >>
            reads == {Access("register", Obj("search", "search"), "read")}
            withR == Bind(ns, "r_register", resp)
        IN  IF RequestRaises(resp)
            THEN CellEnds(TRUE, ns, ex, << >>, reads)
            ELSE IF JsonFails(resp)
            THEN CellEnds(TRUE, withR, ex, << >>, reads)
            ELSE CellEnds(FALSE, Bind(withR, "registered", resp.body), ex,
                          << Shown("register", "registered", resp.body) >>,
                          reads \cup {Access("register", Obj("registered", "register"), "new")})
    /\ UNCHANGED <<selected, msgs, calls>>

SecondLinkHref_Recorded(reg) ==
    <<DataApi, "/mosaic/", "3c377cdaf6bddee4f5379ee6707505fd", "/tilejson.json">>

\* registered["links"][1]["href"]: the second link of the response
SecondLinkHref(reg) == reg.links[2].href

\* tilejson_url = registered["links"][1]["href"]
CellTilejsonUrl ==
    /\ Running("data_api", "tilejson_url")
    /\ LET registered == ns["registered"]
           reads == {Access("tilejson_url", Obj("registered", "register"), "read")}
       IN  IF ~HasKey(registered, "links") \/ Len(registered.links) < 2
           THEN CellEnds(TRUE, ns, << >>, << >>, reads)
           ELSE CellEnds(FALSE, Bind(ns, "tilejson_url", SecondLinkHref(registered)),
                         << >>, << >>, reads)
    /\ UNCHANGED <<selected, msgs, calls>>

MosaicInfoUrl(collection) == <<DataApi, "/mosaic/info", "?collection=", collection>>

\* render_config = mosaic_info["renderOptions"][0]
FirstRenderOption(info) == info.renderOptions[1]

\* mosaic_info = requests.get(<mosaic info>, params=dict(collection=item.collection_id)).json()
\* render_config = mosaic_info["renderOptions"][0]; render_config
CellMosaicInfo ==
    /\ Running("data_api", "mosaic_info")
    /\ LET url == MosaicInfoUrl(ns["item"].collection_id)
           reads == {Access("mosaic_info", Obj("item", "item"), "read")}
       IN  \E resp \in MosaicInfoResponses :
            LET ex == << Exchange("mosaic_info", "GET", url, resp) >>
                withInfo == Bind(ns, "mosaic_info", resp.body)
                made == reads \cup {Access("mosaic_info", Obj("mosaic_info", "mosaic_info"), "new")}
            IN  IF RequestRaises(resp) \/ JsonFails(resp)
                THEN CellEnds(TRUE, ns, ex, << >>, reads)
                ELSE IF ~HasKey(resp.body, "renderOptions") \/ Len(resp.body.renderOptions) = 0
                THEN CellEnds(TRUE, withInfo, ex, << >>, made)
                ELSE CellEnds(FALSE,
                              Bind(withInfo, "render_config", FirstRenderOption(resp.body)),
                              ex,
                              << Shown("mosaic_info", "render_config", FirstRenderOption(resp.body)) >>,
                              made)
    /\ UNCHANGED <<selected, msgs, calls>>

\* f"{tilejson_url}?collection={item.collection_id}&{render_config['options']}"
MosaicTilejsonUrl(tilejson_url, collection_id, render_config) ==
    tilejson_url \o <<"?collection=", collection_id, "&", render_config.options>>

CellMosaicTiles_OtherName ==
    /\ Running("data_api", "mosaic_tiles")
    /\ LET url == MosaicTilejsonUrl(ns["tilejson_url"], ns["item"].collection_id,
                                    ns["render_config"])
           reads == {Access("mosaic_tiles", Obj("item", "item"), "read")}
       IN  \E resp \in TilejsonResponses(url) :
            LET ex == << Exchange("mosaic_tiles", "GET", url, resp) >>
            IN  IF \/ RequestRaises(resp)
                   \/ JsonFails(resp)
                   \/ ~HasKey(resp.body, "tiles")
                   \/ Len(resp.body.tiles) = 0
                THEN CellEnds(TRUE, ns, ex, << >>, reads)
                ELSE CellEnds(FALSE, Bind(ns, "mosaic_tiles", resp.body.tiles[1]), ex,
                              << Shown("mosaic_tiles", "tiles", resp.body.tiles[1]) >>,
                              reads)
    /\ UNCHANGED <<selected, msgs, calls>>

\* tiles = requests.get(<mosaic tilejson url>).json()["tiles"][0]; tiles
CellMosaicTiles ==
    /\ Running("data_api", "mosaic_tiles")
    /\ LET url == MosaicTilejsonUrl(ns["tilejson_url"], ns["item"].collection_id,
                                    ns["render_config"])
           reads == {Access("mosaic_tiles", Obj("item", "item"), "read")}
       IN  \E resp \in TilejsonResponses(url) :
            LET ex == << Exchange("mosaic_tiles", "GET", url, resp) >>
            IN  IF \/ RequestRaises(resp)
                   \/ JsonFails(resp)
                   \/ ~HasKey(resp.body, "tiles")
                   \/ Len(resp.body.tiles) = 0
                THEN CellEnds(TRUE, ns, ex, << >>, reads)
                ELSE CellEnds(FALSE, Bind(ns, "tiles", resp.body.tiles[1]), ex,
                              << Shown("mosaic_tiles", "tiles", resp.body.tiles[1]) >>,
                              reads)
    /\ UNCHANGED <<selected, msgs, calls>>

MosaicMinZoom_Clamped(render_config) ==
    IF render_config.minZoom < 0 THEN 0 ELSE render_config.minZoom

\* min_zoom=render_config["minZoom"]
MosaicMinZoom(render_config) == render_config.minZoom

CellMosaicMap_ReusesMap ==
    /\ Running("data_api", "mosaic_map")
    /\ LET center == Centroid(ns["aoi"])
           layer == TileLayer(ns["tiles"], "Planetary Computer", ns["render_config"].minZoom)
           m == add_to(GeoJson(ns["aoi"]), add_to(layer, ns["m"]))
       IN  CellEnds(FALSE, Bind(Bind(ns, "center", center), "m", m), << >>,
                    << Shown("mosaic_map", "m", m) >>,
                    {Access("mosaic_map", Obj("m", "item_map"), "write")})
    /\ UNCHANGED <<selected, msgs, calls>>

\* center = shapely.geometry.shape(aoi).centroid
\* m = folium.Map(location=(center.y, center.x), zoom_start=9, ...)
\* folium.TileLayer(tiles=tiles, attr=..., min_zoom=render_config["minZoom"]).add_to(m)
\* folium.GeoJson(data=aoi).add_to(m); m
CellMosaicMap ==
    /\ Running("data_api", "mosaic_map")
    /\ LET center == Centroid(ns["aoi"])
           layer == TileLayer(ns["tiles"], "Planetary Computer",
                              MosaicMinZoom(ns["render_config"]))
           m == add_to(GeoJson(ns["aoi"]),
                       add_to(layer, Map(<<center[2], center[1]>>, 9)))
       IN  CellEnds(FALSE, Bind(Bind(ns, "center", center), "m", m), << >>,
                    << Shown("mosaic_map", "m", m) >>,
                    { Access("mosaic_map", Obj("m", "mosaic_map"), "new"),
                      Access("mosaic_map", Obj("m", "mosaic_map"), "write") })
    /\ UNCHANGED <<selected, msgs, calls>>

(***************************************************************************)
(* Interactive footprint browser, src/unnamed/part_001                     *)
(***************************************************************************)
BrowserItemDicts ==
    { ItemDict("S2B_MSIL2A_20230401T001159_R059_T11XML", "sentinel-2-l2a", <<-124, 80, -118, 82>>),
      ItemDict("S2B_MSIL2A_20230401T001619_R059_T58WFS", "sentinel-2-l2a", <<160, 64, 164, 66>>),
      ItemDict("S2B_MSIL2A_20230401T002959_R059_T56RPN", "sentinel-2-l2a", <<152, -26, 154, -24>>) }

IsInjective(f) == \A i, j \in DOMAIN f : f[i] = f[j] => i = j

\* the pages of a search, as one FeatureCollection of distinct items
FeatureCollections(dicts, n) ==
    { [type |-> "FeatureCollection", features |-> f] :
        f \in {g \in SeqsUpTo(dicts, n) : IsInjective(g)} }

SearchUrl == <<StacApi, "/search">>

\* search.item_collection(): an ItemCollection of the Items of the features
item_collection(fc) == [i \in DOMAIN fc.features |-> from_dict(fc.features[i])]

\* catalog = pystac_client.Client.open(...); search = catalog.search(
\*     collections=["sentinel-2-l2a"], datetime="2023-04-01", ..., max_items=200)
\* items = search.item_collection()
CellItems ==
    /\ Running("browser", "items")
    /\ \E root \in RootResponses :
        LET ex1 == << Exchange("items", "GET", RootUrl, root) >>
        IN  IF root.status # "200" \/ JsonFails(root)
            THEN CellEnds(TRUE, ns, ex1, << >>, {})
            ELSE \E resp \in {Ok(fc) : fc \in FeatureCollections(BrowserItemDicts, MaxItems)}
                             \cup Failures :
                    LET ex == ex1 \o << Exchange("items", "POST", SearchUrl, resp) >>
                        space == Bind(Bind(ns, "catalog", root.body),
                                      "search", search(<<"sentinel-2-l2a">>, NoBody, NoBody))
                    IN  IF resp.status # "200" \/ JsonFails(resp)
                        THEN CellEnds(TRUE, space, ex, << >>, {})
                        ELSE CellEnds(FALSE, Bind(space, "items", item_collection(resp.body)),
                                      ex, << >>,
                                      {Access("items", Obj("items", "items"), "new")})
    /\ UNCHANGED <<selected, msgs, calls>>

EmptyData == [empty |-> TRUE]

\* shapely.geometry.shape(item): the geometry of the item's GeoJSON feature
shape(item) == item.geometry

Reversed_Not(point) == point

\* tuple(shape.centroid.coords[0])[::-1]
Reversed(point) == <<point[2], point[1]>>

\* def browse(item): the map and the layer after the body has run
\*     shape = shapely.geometry.shape(item)
\*     m.center = tuple(shape.centroid.coords[0])[::-1]
\*     layer.data = item.geometry
\*     print(item.id, item.datetime.isoformat())
browse(space, item) ==
    Bind(Bind(space,
         "m", [space["m"] EXCEPT !.center = Reversed(Centroid(shape(item)))]),
         "layer", [space["layer"] EXCEPT !.data = item.geometry])

Call(unit, index) == [unit |-> unit, index |-> index]

CellBrowser_NoInitialCall ==
    /\ Running("browser", "browser")
    /\ LET items == ns["items"]
           first == IF Len(items) > 0 THEN 1 ELSE 0
           m == [ zoom |-> 3, center |-> <<0, 0>>, layout |-> [width |-> "600px"],
                  layers |-> <<"basemap", "layer">> ]
           layer == [data |-> EmptyData]
           space == Bind(Bind(Bind(ns, "m", m), "layer", layer),
                         "browse", [widget |-> [index |-> first, options |-> items]])
       IN  /\ CellEnds(FALSE, space, << >>,
                       << Shown("browser", "interactive", space["layer"]),
                          Shown("browser", "m", space["m"]) >>,
                       { Access("browser", Obj("m", "browser"), "new"),
                         Access("browser", Obj("layer", "browser"), "new"),
                         Access("browser", Obj("items", "items"), "read") })
           /\ selected' = first
           /\ calls' = calls
    /\ UNCHANGED msgs

\* m = ipyleaflet.Map(zoom=3); m.layout.width = "600px"
\* layer = ipyleaflet.GeoJSON(); m.add(layer)
\* @ipywidgets.interact(item=items) def browse(item): ...   (runs browse once)
\* m
CellBrowser ==
    /\ Running("browser", "browser")
    /\ LET items == ns["items"]
           first == IF Len(items) > 0 THEN 1 ELSE 0
           m == [ zoom |-> 3, center |-> <<0, 0>>, layout |-> [width |-> "600px"],
                  layers |-> <<"basemap", "layer">> ]
           layer == [data |-> EmptyData]
           placed == Bind(Bind(Bind(ns, "m", m), "layer", layer),
                          "browse", [widget |-> [index |-> first, options |-> items]])
           \* browse(None) raises inside interact, which shows the traceback
           space == IF first = 0 THEN placed ELSE browse(placed, items[first])
           made == { Access("browser", Obj("m", "browser"), "new"),
                     Access("browser", Obj("m", "browser"), "write"),
                     Access("browser", Obj("layer", "browser"), "new"),
                     Access("browser", Obj("items", "items"), "read") }
                   \cup (IF first = 0 THEN {}
                         ELSE {Access("browser", Obj("layer", "browser"), "write")})
       IN  /\ CellEnds(FALSE, space, << >>,
                       << Shown("browser", "interactive", space["layer"]),
                          Shown("browser", "m", space["m"]) >>,
                       made)
           /\ selected' = first
           /\ calls' = Append(calls, Call("browser", first))
    /\ UNCHANGED msgs

\* the user picks another entry of the dropdown: the front end shows it and
\* sends the new index to the kernel
Select ==
    /\ nb = "browser"
    /\ Bound("browse")
    /\ Len(calls) + Len(msgs) <= MaxSelect
    /\ \E i \in DOMAIN ns["items"] :
        /\ i # selected
        /\ selected' = i
        /\ msgs' = Append(msgs, i)
    /\ UNCHANGED <<nb, pc, status, ns, http, outputs, access, calls, inflight>>

NextMsg_Newest(queue) == Len(queue)

\* the next selection message to handle: the oldest
NextMsg(queue) == 1

\* the idle kernel handles a selection message: the dropdown's value changes
\* and interact calls browse with the selected item
Callback ==
    /\ nb = "browser"
    /\ status # "running"
    /\ Len(msgs) > 0
    /\ LET k == NextMsg(msgs)
           i == msgs[k]
           set == Bind(ns, "browse", [ns["browse"] EXCEPT !.widget.index = i])
       IN  /\ ns' = browse(set, ns["items"][i])
           /\ msgs' = [j \in 1..(Len(msgs) - 1) |-> IF j < k THEN msgs[j] ELSE msgs[j + 1]]
           /\ calls' = Append(calls, Call("callback", i))
           /\ outputs' = Append(outputs, Shown("callback", "print", ns["items"][i].id))
           /\ access' = access \cup { Access("callback", Obj("items", "items"), "read"),
                                      Access("callback", Obj("m", "browser"), "write"),
                                      Access("callback", Obj("layer", "browser"), "write") }
    /\ UNCHANGED <<nb, pc, status, http, selected, inflight>>

(***************************************************************************)
(* Chesapeake Land Use, src/datasets/chesapeake/chesapeake-example.ipynb   *)
(***************************************************************************)
\* most entries of the list datetimes
MaxDatetimes == 2

BlobStore == "https://landcoverdata.blob.core.windows.net/chesapeake/lu/"

ChesapeakeItemDict(id, dt) ==
    [ type |-> "Feature",
      id |-> id,
      collection |-> "chesapeake-lu",
      bbox |-> <<-78, 38, -76, 40>>,
      geometry |-> Rect(-78, 38, -76, 40),
      properties |-> [datetime |-> "None", start_datetime |-> dt, created |-> "2022-06-01"],
      assets |->
        [ data |-> [href |-> <<BlobStore, id, ".tif">>, title |-> "Land Use Classes"],
          tilejson |->
            [ href |-> <<DataApi, "/item/tilejson.json?collection=", "chesapeake-lu", "&item=", id>>,
              title |-> "TileJSON with default rendering" ],
          rendered_preview |->
            [ href |-> <<DataApi, "/item/preview.png?collection=", "chesapeake-lu", "&item=", id>>,
              title |-> "Rendered preview" ] ] ]

ChesapeakeItemDicts(dt) ==
    { ChesapeakeItemDict(id, dt) :
        id \in {"BayWide_1m_LU_E1700000_N1960000", "BayWide_1m_LU_E1710000_N1960000"} }

Years == {"2013", "2017"}

\* the list datetimes of the query cell (["2013"] in the notebook)
DatetimeLists == SeqsUpTo(Years, MaxDatetimes)

SasTokenUrl == <<"https://planetarycomputer.microsoft.com/api/sas/v1/token/", "landcoverdata", "/chesapeake">>

SasTokens == {"st=2022-08-08T16%3A37%3A59Z&se=2022-08-16T16%3A37%3A59Z&sp=rl&sig=x"}

IsBlobHref(href) == Len(href) >= 1 /\ href[1] = BlobStore

sign_inplace_AllAssets(item, token) ==
    [ item EXCEPT !.assets =
        [ k \in DOMAIN item.assets |->
            [item.assets[k] EXCEPT !.href = @ \o <<"?", token>>] ] ]

\* planetary_computer.sign_inplace: the item with the SAS token appended to
\* the href of every asset in blob storage
sign_inplace(item, token) ==
    [ item EXCEPT !.assets =
        [ k \in DOMAIN item.assets |->
            IF IsBlobHref(item.assets[k].href)
            THEN [item.assets[k] EXCEPT !.href = @ \o <<"?", token>>]
            ELSE item.assets[k] ] ]

ChesapeakeBbox(longitude, latitude, buffer) ==
    <<longitude - buffer, latitude - buffer, longitude + buffer, latitude + buffer>>

LoopSearch_First(datetimes, bbox) ==
    [ collections |-> <<"chesapeake-lu">>, bbox |-> bbox,
      datetime |-> datetimes[1] ]

\* the loop of the query cell: the search left in `search` when it ends
\* for datetime in datetimes: print(...); search = catalog.search(..., datetime=datetime)
LoopSearch(datetimes, bbox) ==
    [ collections |-> <<"chesapeake-lu">>, bbox |-> bbox,
      datetime |-> datetimes[Len(datetimes)] ]

\* catalog = Client.open(<stac api>, modifier=planetary_computer.sign_inplace)
\* latitude, longitude, datetimes, buffer, bbox = ...; items = dict()
\* for datetime in datetimes: ...
\* items = list(search.get_items()); print(f"Returned {len(items)} Items")
CellQuery ==
    /\ Running("chesapeake", "query")
    /\ \E datetimes \in DatetimeLists, root \in RootResponses :
        LET ex1 == << Exchange("query", "GET", RootUrl, root) >>
            bbox == ChesapeakeBbox(-77, 39, 1)
            fetching == [i \in DOMAIN datetimes |-> Shown("query", "Fetching", <<datetimes[i]>>)]
            before == Bind(Bind(Bind(Bind(ns,
                        "catalog", root.body),
                        "datetimes", datetimes),
                        "bbox", bbox),
                        "items", << >>)
        IN  IF root.status # "200" \/ JsonFails(root)
            THEN CellEnds(TRUE, ns, ex1, << >>, {})
            ELSE IF Len(datetimes) = 0
            \* the loop body never ran: search is not defined
            THEN CellEnds(TRUE, before, ex1, << >>, {})
            ELSE
              LET srch == LoopSearch(datetimes, bbox)
                  looped == Bind(Bind(before, "datetime", datetimes[Len(datetimes)]),
                                 "search", srch)
              IN  \E resp \in {Ok(fc) : fc \in FeatureCollections(
                                   ChesapeakeItemDicts(srch.datetime), MaxItems)} \cup Failures :
                    LET ex2 == ex1 \o << Exchange("query", "POST", SearchUrl, resp) >>
                    IN  IF resp.status # "200" \/ JsonFails(resp)
                        THEN CellEnds(TRUE, looped, ex2, fetching, {})
                        ELSE IF Len(resp.body.features) = 0
                        THEN CellEnds(FALSE, Bind(looped, "items", << >>), ex2,
                                      Append(fetching, Shown("query", "Returned", << >>)),
                                      {Access("query", Obj("items", "query"), "new")})
                        ELSE \E tok \in {Ok([token |-> t]) : t \in SasTokens} \cup Failures :
                            LET ex3 == ex2 \o << Exchange("query", "GET", SasTokenUrl, tok) >>
                                fetched == item_collection(resp.body)
                                items == [i \in DOMAIN fetched |->
                                             sign_inplace(fetched[i], tok.body.token)]
                            IN  IF tok.status # "200" \/ JsonFails(tok)
                                THEN CellEnds(TRUE, looped, ex3, fetching, {})
                                ELSE CellEnds(FALSE, Bind(looped, "items", items), ex3,
                                              Append(fetching, Shown("query", "Returned",
                                                  [i \in DOMAIN items |-> items[i].id])),
                                              { Access("query", Obj("items", "query"), "new"),
                                                Access("query", Obj("items", "query"), "write") })
    /\ UNCHANGED <<selected, msgs, calls>>

\* asset_href = items[0].assets["data"].href; print(asset_href)
CellAssetHref ==
    /\ Running("chesapeake", "asset_href")
    /\ LET items == ns["items"]
       IN  IF Len(items) = 0
           THEN CellEnds(TRUE, ns, << >>, << >>, {})
           ELSE CellEnds(FALSE, Bind(ns, "asset_href", items[1].assets.data.href), << >>,
                         << Shown("asset_href", "asset_href", items[1].assets.data.href) >>,
                         {Access("asset_href", Obj("items", "query"), "read")})
    /\ UNCHANGED <<selected, msgs, calls>>

\* t = rich.table.Table(...); for k, asset in items[0].assets.items(): ...; t
\* and the same over sorted(items[0].properties.items())
CellTables ==
    /\ Running("chesapeake", "tables")
    /\ LET item == ns["items"][1]
       IN  CellEnds(FALSE, Bind(ns, "t", DOMAIN item.properties), << >>,
                    << Shown("tables", "assets", DOMAIN item.assets),
                       Shown("tables", "properties", DOMAIN item.properties) >>,
                    {Access("tables", Obj("items", "query"), "read")})
    /\ UNCHANGED <<selected, msgs, calls>>

CollectionUrl == <<StacApi, "/collections/", "chesapeake-lu">>

\* item_assets["data"].properties["classification:classes"] of the collection
ClassLists ==
    { << [description |-> "Impervious Roads", value |-> 1],
         [description |-> "Impervious Non-Roads", value |-> 2] >>,
      << [description |-> "Impervious Roads", value |-> 1],
         [description |-> "Water", value |-> 4] >> }

\* class_names = {x["description"]: x["value"] for x in classes}
\* class_values = {v: k for k, v in class_names.items()}
class_values(classes) ==
    [ v \in {classes[i].value : i \in DOMAIN classes} |->
        (CHOOSE c \in {classes[i] : i \in DOMAIN classes} : c.value = v).description ]

\* collection = catalog.get_collection("chesapeake-lu"); ia = ItemAssetsExtension.ext(collection)
\* x = ia.item_assets["data"]; class_names = ...; class_values = ...; t
CellClasses ==
    /\ Running("chesapeake", "classes")
    /\ \E resp \in {Ok([id |-> "chesapeake-lu", classes |-> c]) : c \in ClassLists} \cup Failures :
        LET ex == << Exchange("classes", "GET", CollectionUrl, resp) >>
        IN  IF resp.status # "200" \/ JsonFails(resp)
            THEN CellEnds(TRUE, ns, ex, << >>, {})
            ELSE CellEnds(FALSE,
                          Bind(Bind(ns, "collection", resp.body),
                               "class_values", class_values(resp.body.classes)),
                          ex,
                          << Shown("classes", "t", resp.body.classes) >>,
                          {})
    /\ UNCHANGED <<selected, msgs, calls>>

LegendUrl ==
    <<"https://pct-apis-staging.westeurope.cloudapp.azure.com/data/legend/classmap/", "chesapeake-lu">>

\* the legend: class value -> [r, g, b, a], in the order of the JSON object
Classmaps ==
    { [ entries |-> << [key |-> "0", rgba |-> <<0, 0, 0, 0>>],
                       [key |-> "1", rgba |-> <<0, 0, 0, 255>>],
                       [key |-> "2", rgba |-> <<115, 0, 0, 255>>],
                       [key |-> "255", rgba |-> <<0, 0, 0, 0>>] >> ],
      [ entries |-> << [key |-> "0", rgba |-> <<0, 0, 0, 0>>],
                       [key |-> "1", rgba |-> <<85, 255, 0, 255>>] >> ] }

\* classmap = requests.get(<legend>).json(); classmap
CellClassmap ==
    /\ Running("chesapeake", "classmap")
    /\ \E resp \in {Ok(c) : c \in Classmaps} \cup Failures :
        LET ex == << Exchange("classmap", "GET", LegendUrl, resp) >>
        IN  IF RequestRaises(resp) \/ JsonFails(resp)
            THEN CellEnds(TRUE, ns, ex, << >>, {})
            ELSE CellEnds(FALSE, Bind(ns, "classmap", resp.body), ex,
                          << Shown("classmap", "classmap", resp.body) >>,
                          {Access("classmap", Obj("classmap", "classmap"), "new")})
    /\ UNCHANGED <<selected, msgs, calls>>

to_rgba_Unscaled(c) == [i \in DOMAIN c |-> [num |-> c[i], den |-> 1]]

\* matplotlib.colors.to_rgba([x / 255 for x in c])
to_rgba(c) == [i \in DOMAIN c |-> [num |-> c[i], den |-> 255]]

get_AlwaysDefault(d, key, default) == default

\* dict.get(key, default)
get(d, key, default) == IF key \in DOMAIN d THEN d[key] ELSE default

\* colors = [to_rgba([x / 255 for x in c]) for c in classmap.values()]
\* cmap = ListedColormap(colors); ticks = np.arange(cmap.N)
\* labels = [class_values.get(value, "nodata") for value in ticks]
\* an error body has no colour lists: dividing its string raises TypeError
CellColormap ==
    /\ Running("chesapeake", "colormap")
    /\ LET classmap == ns["classmap"]
           reads == {Access("colormap", Obj("classmap", "classmap"), "read")}
       IN  IF ~HasKey(classmap, "entries")
           THEN CellEnds(TRUE, ns, << >>, << >>, reads)
           ELSE LET colors == [i \in DOMAIN classmap.entries |->
                                  to_rgba(classmap.entries[i].rgba)]
                    ticks == [i \in DOMAIN colors |-> i - 1]
                    labels == [i \in DOMAIN ticks |-> get(ns["class_values"], ticks[i], "nodata")]
                IN  CellEnds(FALSE,
                             Bind(Bind(Bind(Bind(ns, "colors", colors), "cmap", colors),
                                  "ticks", ticks), "labels", labels),
                             << >>, << >>, reads)
    /\ UNCHANGED <<selected, msgs, calls>>

\* ds = rioxarray.open_rasterio(items[0].assets["data"].href).squeeze()
CellOpen ==
    /\ Running("chesapeake", "open")
    /\ LET url == ns["items"][1].assets.data.href
           reads == {Access("open", Obj("items", "query"), "read")}
       IN  \E resp \in {Ok([raster |-> "BayWide_1m_LU"])} \cup Failures :
            LET ex == << Exchange("open", "GET", url, resp) >>
            IN  IF resp.status # "200" \/ JsonFails(resp)
                THEN CellEnds(TRUE, ns, ex, << >>, reads)
                ELSE CellEnds(FALSE, Bind(ns, "ds", resp.body), ex, << >>, reads)
    /\ UNCHANGED <<selected, msgs, calls>>

\* a ListedColormap under NoNorm: the colour drawn for the integer value v is
\* the colour at index v, values below 0 take the first and values above
\* N - 1 the last colour of the list
NoNormColor(cmap, v) ==
    IF v < 0 THEN cmap[1]
    ELSE IF v > Len(cmap) - 1 THEN cmap[Len(cmap)]
    ELSE cmap[v + 1]

\* fig, ax = plt.subplots(...); ds.isel(...).plot(ax=ax, cmap=cmap, norm=NoNorm())
\* colorbar = fig.axes[1]; colorbar.set_yticks(ticks, labels=labels)
CellPlot ==
    /\ Running("chesapeake", "plot")
    /\ LET fig == [ image |-> [data |-> ns["ds"], cmap |-> ns["cmap"]],
                    colorbar |-> [ticks |-> ns["ticks"], labels |-> ns["labels"]] ]
       IN  CellEnds(FALSE, Bind(ns, "fig", fig), << >>, << Shown("plot", "fig", fig) >>, {})
    /\ UNCHANGED <<selected, msgs, calls>>

(***************************************************************************)
(* Requests in flight                                                      *)
(***************************************************************************)
\* the request a cell's first request statement sends
FirstRequest(cell) ==
    CASE cell = "item" -> Request("kernel", cell, "GET", ItemUrl)
      [] cell = "item_tilejson" ->
            Request("kernel", cell, "GET", ns["item"].assets.tilejson.href)
      [] cell = "register" -> Request("kernel", cell, "POST", RegisterUrl)
      [] cell = "mosaic_info" ->
            Request("kernel", cell, "GET", MosaicInfoUrl(ns["item"].collection_id))
      [] cell = "mosaic_tiles" ->
            Request("kernel", cell, "GET",
                    MosaicTilejsonUrl(ns["tilejson_url"], ns["item"].collection_id,
                                      ns["render_config"]))
      [] cell \in {"search", "items", "query"} -> Request("kernel", cell, "GET", RootUrl)
      [] cell = "classes" -> Request("kernel", cell, "GET", CollectionUrl)
      [] cell = "classmap" -> Request("kernel", cell, "GET", LegendUrl)
      [] cell = "open" -> Request("kernel", cell, "GET", ns["items"][1].assets.data.href)

SendRequest_Async ==
    /\ status = "running"
    /\ pc \in DOMAIN Cells(nb)
    /\ RequestStatements(Cells(nb)[pc]) > 0
    /\ KernelRequests = {}
    /\ inflight' = inflight \cup {FirstRequest(Cells(nb)[pc])}
    /\ pc' = pc + 1
    /\ status' = IF pc = Len(Cells(nb)) THEN "done" ELSE "running"
    /\ UNCHANGED <<nb, ns, http, outputs, access, selected, msgs, calls>>

\* requests.get(...) / requests.post(...) and the library calls built on them:
\* the kernel sends the request and blocks until the response arrives
SendRequest ==
    /\ status = "running"
    /\ pc \in DOMAIN Cells(nb)
    /\ RequestStatements(Cells(nb)[pc]) > 0
    /\ KernelRequests = {}
    /\ inflight' = inflight \cup {FirstRequest(Cells(nb)[pc])}
    /\ UNCHANGED <<nb, pc, status, ns, http, outputs, access, selected, msgs, calls>>

\* a request of the front end is answered: the image or the tiles appear
Loaded ==
    /\ \E r \in inflight :
        /\ r.by = "frontend"
        /\ inflight' = inflight \ {r}
    /\ UNCHANGED <<nb, pc, status, ns, http, outputs, access, selected, msgs, calls>>

(***************************************************************************)
(* The specification                                                       *)
(***************************************************************************)
Init ==
    /\ nb \in Notebooks
    /\ pc = 1
    /\ status = "running"
    /\ ns = << >>
    /\ http = << >>
    /\ outputs = << >>
    /\ access = {}
    /\ selected = 0
    /\ msgs = << >>
    /\ calls = << >>
    /\ inflight = {}

Next ==
    \/ SendRequest
    \/ CellItem
    \/ CellPreview
    \/ CellTilejsonHref
    \/ CellItemTilejson
    \/ CellItemTiles
    \/ CellItemMap
    \/ CellSearch
    \/ CellRegister
    \/ CellTilejsonUrl
    \/ CellMosaicInfo
    \/ CellMosaicTiles
    \/ CellMosaicMap
    \/ CellItems
    \/ CellBrowser
    \/ Select
    \/ Callback
    \/ CellQuery
    \/ CellAssetHref
    \/ CellTables
    \/ CellClasses
    \/ CellClassmap
    \/ CellColormap
    \/ CellOpen
    \/ CellPlot

\* the kernel and the user: the requests of the front end stay outstanding
\* (their answers change nothing that the kernel or the user sees)
Spec == Init /\ [][Next]_vars

\* the kernel, the user and the front end, whose requests are answered too
NextFrontEnd == Next \/ Loaded

FrontEndSpec == Init /\ [][NextFrontEnd]_vars

\* the execution of the cell that is up
CellStep ==
    \/ CellItem \/ CellPreview \/ CellTilejsonHref \/ CellItemTilejson
    \/ CellItemTiles \/ CellItemMap \/ CellSearch \/ CellRegister
    \/ CellTilejsonUrl \/ CellMosaicInfo \/ CellMosaicTiles \/ CellMosaicMap
    \/ CellItems \/ CellBrowser
    \/ CellQuery \/ CellAssetHref \/ CellTables \/ CellClasses
    \/ CellClassmap \/ CellColormap \/ CellOpen \/ CellPlot

\* the kernel keeps executing: it sends the request of a cell that is up,
\* every HTTP call of the kernel eventually returns and the cell then runs
\* on, and an idle kernel handles a pending widget message
FairSpec ==
    /\ Init /\ [][Next]_vars
    /\ WF_vars(SendRequest)
    /\ WF_vars(CellStep)
    /\ WF_vars(Callback)

(***************************************************************************)
(* Reading the logs                                                        *)
(***************************************************************************)
\* the exchanges a cell made, as indices into http
ExchangesOf(cell) == {k \in DOMAIN http : http[k].cell = cell}

\* the outputs a cell produced, as indices into outputs
OutputsOf(cell) == {k \in DOMAIN outputs : outputs[k].cell = cell}

\* the first position of a cell in its notebook
CellIndex(cell) ==
    Min({i \in DOMAIN Cells(nb) : Cells(nb)[i] = cell})

\* the cell ran to its end without raising
Completed(cell) ==
    /\ \E i \in DOMAIN Cells(nb) : Cells(nb)[i] = cell
    /\ pc > CellIndex(cell)

\* the run stopped in this cell, which raised
StoppedAt(cell) ==
    /\ status = "error"
    /\ pc \in DOMAIN Cells(nb)
    /\ Cells(nb)[pc] = cell

IsPrefix(p, q) == Len(p) <= Len(q) /\ SubSeq(q, 1, Len(p)) = p

\* the mosaic tile layer of the second map: the layer added after the base layer
MosaicLayer(m) == m.layers[2]

(***************************************************************************)
(* C1: in the mosaic flow of the Data API notebook the steps happen in the *)
(* order registration POST, TileJSON request (built from the registration  *)
(* response), tile template taken from the TileJSON, tile layer added to   *)
(* the map: none happens twice, none happens before its predecessor has,   *)
(* and a run that reaches the end has done each exactly once.              *)
(***************************************************************************)
C1_MosaicStepsInOrder ==
    nb = "data_api" =>
        LET reg == ExchangesOf("register")
            tj == ExchangesOf("mosaic_tiles")
            taken == OutputsOf("mosaic_tiles")
            added == OutputsOf("mosaic_map")
        IN  /\ Cardinality(reg) <= 1 /\ Cardinality(tj) <= 1
            /\ Cardinality(taken) <= 1 /\ Cardinality(added) <= 1
            /\ \A k \in reg : http[k].method = "POST" /\ http[k].url = RegisterUrl
            /\ \A k \in tj :
                /\ \E j \in reg :
                    /\ j < k
                    /\ http[j].resp.status # "none"
                    /\ \E l \in DOMAIN http[j].resp.body.links :
                        IsPrefix(http[j].resp.body.links[l].href, http[k].url)
            /\ \A o \in taken :
                \E k \in tj : /\ http[k].resp.status = "200"
                              /\ outputs[o].value = http[k].resp.body.tiles[1]
            /\ \A a \in added :
                \E o \in taken : /\ o < a
                                 /\ MosaicLayer(outputs[a].value).tiles = outputs[o].value
            /\ status = "done" =>
                /\ Cardinality(reg) = 1 /\ Cardinality(tj) = 1
                /\ Cardinality(taken) = 1 /\ Cardinality(added) = 1

C1_Witness ==
    /\ nb = "data_api"
    /\ status = "done"
    /\ OutputsOf("mosaic_map") # {}

(***************************************************************************)
(* C8: whenever the registration response contains a link with rel         *)
(* "tilejson", tilejson_url is the href of such a link, in whatever order  *)
(* the links come.                                                         *)
(***************************************************************************)
C8_TilejsonUrlIsTilejsonLink ==
    (nb = "data_api" /\ Bound("tilejson_url")) =>
        LET links == ns["registered"].links
        IN  (\E l \in DOMAIN links : links[l].rel = "tilejson") =>
                \E l \in DOMAIN links :
                    links[l].rel = "tilejson" /\ ns["tilejson_url"] = links[l].href

(***************************************************************************)
(* C9: the TileJSON request of the mosaic is the href of the link taken    *)
(* from this run's registration response (its second link, carrying the    *)
(* search id that response returned) followed by                           *)
(* "?collection=<collection id>&<render options>", and the template of the *)
(* mosaic map layer is tiles[0] of the response to that request.           *)
(***************************************************************************)
C9_TemplateFromRegisteredSearch ==
    nb = "data_api" =>
        /\ \A k \in ExchangesOf("mosaic_tiles") :
            \E j \in ExchangesOf("register") :
                LET registered == http[j].resp.body
                IN  /\ Len(registered.links) >= 2
                    /\ http[k].url = registered.links[2].href
                            \o << "?collection=", ns["item"].collection_id, "&",
                                  ns["render_config"].options >>
                    /\ http[k].resp.status = "200" => http[k].url[3] = registered.searchid
        /\ Completed("mosaic_map") =>
            \E k \in ExchangesOf("mosaic_tiles") :
                MosaicLayer(ns["m"]).tiles = http[k].resp.body.tiles[1]

C9_Witness ==
    /\ nb = "data_api"
    /\ Completed("mosaic_map")
    /\ \E j \in ExchangesOf("register") : http[j].resp.body.searchid = "a0b1"

(***************************************************************************)
(* C10: the render options pass through unvalidated and unmodified: the    *)
(* "options" string of the first render option of the mosaic info response *)
(* ends the TileJSON request unchanged, its minZoom is the min_zoom of the *)
(* mosaic tile layer unchanged, and no value of either makes a cell raise. *)
(***************************************************************************)
C10_RenderOptionsPassThrough ==
    nb = "data_api" =>
        \A i \in ExchangesOf("mosaic_info") :
            LET info == http[i].resp.body
            IN  (http[i].resp.status = "200" /\ Len(info.renderOptions) > 0) =>
                    /\ ~StoppedAt("mosaic_info")
                    /\ ns["render_config"] = info.renderOptions[1]
                    /\ \A k \in ExchangesOf("mosaic_tiles") :
                        http[k].url[Len(http[k].url)] = info.renderOptions[1].options
                    /\ StoppedAt("mosaic_tiles") =>
                        \E k \in ExchangesOf("mosaic_tiles") :
                            \/ http[k].resp.status = "none"
                            \/ ~http[k].resp.json
                            \/ ~HasKey(http[k].resp.body, "tiles")
                            \/ http[k].resp.body.tiles = << >>
                    /\ ~StoppedAt("mosaic_map")
                    /\ Completed("mosaic_map") =>
                        MosaicLayer(ns["m"]).min_zoom = info.renderOptions[1].minZoom

C10_Witness ==
    /\ nb = "data_api"
    /\ Completed("mosaic_map")
    /\ MosaicLayer(ns["m"]).min_zoom = -1
    /\ \E k \in ExchangesOf("mosaic_tiles") : http[k].url[Len(http[k].url)] = ""

(***************************************************************************)
(* C2 (as claimed): every HTTP failure, a JSON error body under an error   *)
(* status included, raises in the cell that issued the request: that cell  *)
(* does not complete normally and neither displays nor keeps what it       *)
(* parsed from the failed response.                                        *)
(***************************************************************************)
\* the name a cell binds the parsed body of its response to
ParsedName(cell) ==
    CASE cell = "item_tilejson" -> "r"
      [] cell = "register" -> "registered"
      [] cell = "mosaic_info" -> "mosaic_info"
      [] cell = "classmap" -> "classmap"
      [] OTHER -> "none"

C2_FailureRaisesInIssuingCell ==
    \A k \in DOMAIN http :
        http[k].resp.status # "200" =>
            /\ StoppedAt(http[k].cell)
            /\ Bound(ParsedName(http[k].cell)) =>
                ns[ParsedName(http[k].cell)] # http[k].resp.body
            /\ \A o \in OutputsOf(http[k].cell) :
                outputs[o].what # ParsedName(http[k].cell)

(***************************************************************************)
(* C2 (amended): a request that gets no response, or a response whose body *)
(* is not JSON, raises in the cell that issued it and the run stops there. *)
(* An error status is never checked by the cells that call requests        *)
(* directly: a JSON error body is parsed like any other, so the item       *)
(* TileJSON, register and classmap cells complete normally, bind it (r,    *)
(* registered, classmap) and display it, and the run stops only in the     *)
(* next cell, which reads a field the error body lacks; the item, mosaic   *)
(* info and mosaic tiles cells stop because they read such a field         *)
(* themselves (mosaic_info stays bound to the error body).  Requests made  *)
(* through pystac_client, planetary_computer and rioxarray raise on any    *)
(* status but 200.                                                         *)
(***************************************************************************)
\* cells that only parse and display the body of their response
UncheckedCells == {"item_tilejson", "register", "classmap"}

C2_ErrorStatusIsNotChecked ==
    \A k \in DOMAIN http :
        LET e == http[k]
        IN  /\ (e.resp.status = "none" \/ ~e.resp.json) => StoppedAt(e.cell)
            /\ (e.resp.status # "200" /\ e.resp.json) =>
                IF e.cell \in UncheckedCells
                THEN /\ Completed(e.cell)
                     /\ ns[ParsedName(e.cell)] = e.resp.body
                     /\ \E o \in OutputsOf(e.cell) :
                            /\ outputs[o].what = ParsedName(e.cell)
                            /\ outputs[o].value = e.resp.body
                     /\ pc = CellIndex(e.cell) + 1
                ELSE /\ StoppedAt(e.cell)
                     /\ e.cell = "mosaic_info" => ns["mosaic_info"] = e.resp.body

C2_Witness ==
    /\ nb = "data_api"
    /\ StoppedAt("tilejson_url")
    /\ \E k \in ExchangesOf("register") :
        /\ http[k].resp.status = "500"
        /\ ns["registered"] = http[k].resp.body

(***************************************************************************)
(* What the responses delivered                                            *)
(***************************************************************************)
\* the search exchanges of a cell that came back with items
SearchesOf(cell) ==
    {k \in ExchangesOf(cell) : http[k].url = SearchUrl /\ http[k].resp.status = "200"}

TokensOf(cell) ==
    {http[k].resp.body.token :
        k \in {j \in ExchangesOf(cell) :
                 http[j].url = SasTokenUrl /\ http[j].resp.status = "200"}}

(***************************************************************************)
(* C3 (as claimed): an item is never changed after it was fetched: at      *)
(* every later point its assets (hrefs included), bbox, geometry and       *)
(* properties are those of the response that delivered it.                 *)
(***************************************************************************)
C3_ItemsAsDelivered ==
    /\ (nb = "data_api" /\ Completed("item")) =>
        \E k \in ExchangesOf("item") : ns["item"] = from_dict(http[k].resp.body)
    /\ (nb = "browser" /\ Completed("items")) =>
        \E k \in SearchesOf("items") : ns["items"] = item_collection(http[k].resp.body)
    /\ (nb = "chesapeake" /\ Completed("query")) =>
        \E k \in SearchesOf("query") : ns["items"] = item_collection(http[k].resp.body)

(***************************************************************************)
(* C3 (amended): the only local change to an item is the signing the       *)
(* Chesapeake notebook asks for with modifier=sign_inplace: as the search  *)
(* delivers the items, the SAS token is appended to the href of each asset *)
(* in blob storage (the "data" asset).  Everything else of those items,    *)
(* and every item of the other two notebooks, stays at every later point   *)
(* as in the response that delivered it.                                   *)
(***************************************************************************)
C3_OnlySigningChangesItems ==
    /\ (nb = "data_api" /\ Completed("item")) =>
        \E k \in ExchangesOf("item") : ns["item"] = from_dict(http[k].resp.body)
    /\ (nb = "browser" /\ Completed("items")) =>
        \E k \in SearchesOf("items") : ns["items"] = item_collection(http[k].resp.body)
    /\ (nb = "chesapeake" /\ Completed("query")) =>
        \E k \in SearchesOf("query") :
            LET fetched == item_collection(http[k].resp.body)
                items == ns["items"]
            IN  /\ DOMAIN items = DOMAIN fetched
                /\ \A i \in DOMAIN items :
                    /\ [items[i] EXCEPT !.assets = fetched[i].assets] = fetched[i]
                    /\ DOMAIN items[i].assets = DOMAIN fetched[i].assets
                    /\ \A a \in DOMAIN items[i].assets :
                        LET now == items[i].assets[a]
                            was == fetched[i].assets[a]
                        IN  /\ [now EXCEPT !.href = was.href] = was
                            /\ IF IsBlobHref(was.href)
                               THEN \E t \in TokensOf("query") : now.href = was.href \o <<"?", t>>
                               ELSE now.href = was.href

C3_Witness ==
    /\ nb = "chesapeake"
    /\ Completed("asset_href")
    /\ \E k \in SearchesOf("query") :
        ns["asset_href"] # http[k].resp.body.features[1].assets.data.href

(***************************************************************************)
(* C4 (as claimed): an item is discarded when the cell that fetched it     *)
(* completes: no later cell and no callback reads an item that an earlier  *)
(* cell fetched.                                                           *)
(***************************************************************************)
ItemNames == {"item", "items"}

C4_ItemDiscardedAfterCell ==
    \A a \in access :
        (a.mode = "read" /\ a.obj.name \in ItemNames) => a.unit = a.obj.by

(***************************************************************************)
(* C4 (amended): an item is not discarded when the cell that fetched it    *)
(* completes: it stays bound to its name (item, items) for the rest of the *)
(* run, and later cells and the browse callback read it: the item TileJSON *)
(* and mosaic requests and the first map are built from item, asset_href   *)
(* and the raster read from items[0], the map centre from the selected     *)
(* entry of items.                                                         *)
(***************************************************************************)
\* the cells after the fetching cell that read the fetched items
ItemReaders ==
    IF nb = "data_api"
    THEN {"preview", "tilejson_href", "item_tilejson", "item_map", "mosaic_info", "mosaic_tiles"}
    ELSE IF nb = "browser" THEN {"browser"}
    ELSE {"asset_href", "tables", "open"}

Fetcher == IF nb = "data_api" THEN "item" ELSE IF nb = "browser" THEN "items" ELSE "query"

FetchedName == IF nb = "data_api" THEN "item" ELSE "items"

C4_ItemsKeptAndReadLater ==
    /\ Completed(Fetcher) => Bound(FetchedName)
    /\ \A c \in ItemReaders :
        Completed(c) => Access(c, Obj(FetchedName, Fetcher), "read") \in access
    /\ nb = "data_api" =>
        /\ Completed("item") =>
            \E k \in ExchangesOf("item") : ns["item"] = from_dict(http[k].resp.body)
        /\ \A k \in ExchangesOf("item_tilejson") :
            http[k].url = ns["item"].assets.tilejson.href
        /\ \A k \in ExchangesOf("mosaic_info") :
            http[k].url = MosaicInfoUrl(ns["item"].collection_id)
        /\ \A o \in OutputsOf("item_map") :
            outputs[o].value.location =
                << (ns["item"].bbox[2] + ns["item"].bbox[4]) \div 2,
                   (ns["item"].bbox[1] + ns["item"].bbox[3]) \div 2 >>
    /\ nb = "browser" =>
        /\ \A c \in DOMAIN calls :
            calls[c].index \in DOMAIN ns["items"] \cup {0}
        /\ (calls # << >> /\ calls[Len(calls)].index # 0) =>
            ns["layer"].data = ns["items"][calls[Len(calls)].index].geometry
    /\ nb = "chesapeake" =>
        /\ Completed("asset_href") => ns["asset_href"] = ns["items"][1].assets.data.href
        /\ \A k \in ExchangesOf("open") : http[k].url = ns["items"][1].assets.data.href

C4_Witness ==
    \/ /\ nb = "data_api"
       /\ Completed("mosaic_tiles")
       /\ Access("mosaic_tiles", Obj("item", "item"), "read") \in access
    \/ /\ nb = "browser"
       /\ \E c \in DOMAIN calls : calls[c].unit = "callback"
       /\ Access("callback", Obj("items", "items"), "read") \in access

(***************************************************************************)
(* The browser's widgets                                                   *)
(***************************************************************************)
\* the map and the layer as the cell that created them displayed them
ShownBy(cell, what) ==
    outputs[CHOOSE o \in OutputsOf(cell) : outputs[o].what = what].value

CallbackCalls == {c \in DOMAIN calls : calls[c].unit = "callback"}

\* the centre browse gives the map for an item
CentreOf(item) == Reversed(Centroid(item.geometry))

C6_MapShowsSelectedItem ==
    (nb = "browser" /\ Completed("browser") /\ ns["items"] # << >>) =>
        LET items == ns["items"]
        IN  /\ msgs = << >> =>
                /\ selected \in DOMAIN items
                /\ ns["browse"].widget.index = selected
                /\ ns["m"].center = CentreOf(items[selected])
                /\ ns["layer"].data = items[selected].geometry
            /\ \E i \in DOMAIN items :
                /\ ns["m"].center = CentreOf(items[i])
                /\ ns["layer"].data = items[i].geometry

C6_Witness ==
    /\ nb = "browser"
    /\ msgs = << >>
    /\ Cardinality(CallbackCalls) >= 2
    /\ selected = 2
    /\ ns["layer"].data = ns["items"][2].geometry

(***************************************************************************)
(* C7 (as claimed): every notebook is a linear script run once: cells      *)
(* execute in order, and no display step is executed more than once or in  *)
(* response to an event.                                                   *)
(***************************************************************************)
\* the outputs come from the cells, in the order of the cells
OutputsInCellOrder ==
    \A o1, o2 \in DOMAIN outputs :
        (o1 < o2 /\ outputs[o1].cell # "callback" /\ outputs[o2].cell # "callback") =>
            /\ \E i \in DOMAIN Cells(nb) : Cells(nb)[i] = outputs[o1].cell
            /\ \E i \in DOMAIN Cells(nb) : Cells(nb)[i] = outputs[o2].cell
            /\ CellIndex(outputs[o1].cell) <= CellIndex(outputs[o2].cell)

ExchangesInCellOrder ==
    \A k1, k2 \in DOMAIN http :
        k1 < k2 => CellIndex(http[k1].cell) <= CellIndex(http[k2].cell)

C7_LinearRunOnce ==
    /\ OutputsInCellOrder
    /\ ExchangesInCellOrder
    /\ OutputsOf("callback") = {}
    /\ Len(calls) <= 1

(***************************************************************************)
(* C7 (amended): the Data API and Chesapeake notebooks are linear scripts  *)
(* run once: their cells execute in order, each at most once, and every    *)
(* display of remote data shows the response its own cell fetched.  The    *)
(* footprint browser is a linear script only up to the creation of the     *)
(* widget: its display step browse runs once when the widget is created    *)
(* and then once more for every dropdown selection event, each time on the *)
(* items that the single search of the first cell fetched.                 *)
(***************************************************************************)
C7_LinearExceptBrowse ==
    /\ OutputsInCellOrder
    /\ ExchangesInCellOrder
    /\ \A o \in DOMAIN outputs :
        LET out == outputs[o]
        IN  /\ (out.cell \in UncheckedCells \/ out.what = "render_config") =>
                out.what \in {ParsedName(out.cell), "render_config"}
            /\ out.what = ParsedName(out.cell) =>
                \E k \in ExchangesOf(out.cell) : out.value = http[k].resp.body
            /\ out.what = "render_config" =>
                \E k \in ExchangesOf(out.cell) : out.value = http[k].resp.body.renderOptions[1]
            /\ out.what = "tiles" =>
                \E k \in ExchangesOf(out.cell) : out.value = http[k].resp.body.tiles[1]
    /\ nb # "browser" => (calls = << >> /\ msgs = << >> /\ OutputsOf("callback") = {})
    /\ nb = "browser" =>
        /\ calls # << >> =>
            /\ Completed("browser")
            /\ calls[1].unit = "browser"
            /\ Cardinality(SearchesOf("items")) = 1
        /\ \A c \in DOMAIN calls : c > 1 => calls[c].unit = "callback"
        /\ Cardinality(OutputsOf("callback")) = Cardinality(CallbackCalls)
        /\ Cardinality(OutputsOf("browser")) <= 2

C7_Witness ==
    /\ nb = "browser"
    /\ Cardinality(CallbackCalls) >= 2
    /\ Cardinality(OutputsOf("callback")) >= 2

(***************************************************************************)
(* C11: the collection id sent to the mosaic info endpoint and in the      *)
(* mosaic TileJSON request, item.collection_id, is in every run the        *)
(* collection the registered search was restricted to (and the value of    *)
(* the name collection).                                                   *)
(***************************************************************************)
\* the piece of a URL that follows "?collection="
CollectionParam(url) ==
    url[(CHOOSE i \in DOMAIN url : url[i] = "?collection=") + 1]

C11_CollectionOfRegisteredSearch ==
    nb = "data_api" =>
        \A k \in ExchangesOf("mosaic_info") \cup ExchangesOf("mosaic_tiles") :
            /\ \E i \in DOMAIN http[k].url : http[k].url[i] = "?collection="
            /\ CollectionParam(http[k].url) = ns["item"].collection_id
            /\ get_parameters(ns["search"]).collections = << CollectionParam(http[k].url) >>
            /\ CollectionParam(http[k].url) = ns["collection"]
            /\ ExchangesOf("register") # {}

C11_Witness ==
    /\ nb = "data_api"
    /\ \E k \in ExchangesOf("mosaic_tiles") :
        /\ http[k].resp.status = "200"
        /\ CollectionParam(http[k].url) = "sentinel-2-l2a"
    /\ ExchangesOf("mosaic_info") # {}

(***************************************************************************)
(* Requests and signing                                                    *)
(***************************************************************************)
\* the cell was executed: it completed or it raised
Executed(cell) == Completed(cell) \/ StoppedAt(cell)

\* no request is issued a second time
NoReissue ==
    \A k1, k2 \in DOMAIN http :
        (k1 < k2) => ~(http[k1].method = http[k2].method /\ http[k1].url = http[k2].url)

\* the asset hrefs of the items that carry a SAS token
SignedHrefs ==
    { <<i, a>> \in (DOMAIN ns["items"]) \X {"data", "tilejson", "rendered_preview"} :
        \E t \in SasTokens :
            LET href == ns["items"][i].assets[a].href
            IN  Len(href) >= 2 /\ href[Len(href)] = t /\ href[Len(href) - 1] = "?" }

TokenExchanges == {k \in DOMAIN http : http[k].url = SasTokenUrl}

(***************************************************************************)
(* C12 (as claimed): no request is retried or served from a local cache:   *)
(* no request is issued twice, each request statement of a cell issues     *)
(* exactly one HTTP request, and every signed asset href got its token     *)
(* from a request of its own.                                              *)
(***************************************************************************)
C12_OneRequestPerStatement ==
    /\ NoReissue
    /\ \A i \in DOMAIN Cells(nb) :
        /\ Cardinality(ExchangesOf(Cells(nb)[i])) <= RequestStatements(Cells(nb)[i])
        /\ Completed(Cells(nb)[i]) =>
            Cardinality(ExchangesOf(Cells(nb)[i])) = RequestStatements(Cells(nb)[i])
    /\ (nb = "chesapeake" /\ Completed("query")) =>
        Cardinality(TokenExchanges) >= Cardinality(SignedHrefs)

(***************************************************************************)
(* C12 (amended): no request is retried: within one run no request is      *)
(* issued twice and a request that failed is never issued again.  Each     *)
(* statement that calls requests.get or requests.post issues exactly one   *)
(* HTTP request.  The statements that go through pystac_client issue the   *)
(* requests the library needs: the catalog root, the search, the           *)
(* collection, and in the Chesapeake notebook, whose client signs the      *)
(* items it delivers, a SAS token request in the statement that fetches    *)
(* the items; the token is requested once and reused for every asset       *)
(* signed in the run.                                                      *)
(***************************************************************************)
C12_NoRetries ==
    /\ NoReissue
    /\ \A c \in DirectRequestCells :
        /\ Cardinality(ExchangesOf(c)) <= 1
        /\ Executed(c) => Cardinality(ExchangesOf(c)) = 1
    /\ \A k \in DOMAIN http :
        \* a failure that raises is the last request of the run
        (http[k].resp.status = "none"
            \/ (http[k].cell \notin DirectRequestCells /\ http[k].resp.status # "200"))
                => (k = Len(http) /\ StoppedAt(http[k].cell))
    /\ Cardinality(ExchangesOf("search")) <= 1
    /\ Cardinality(ExchangesOf("classes")) <= 1
    /\ Cardinality(ExchangesOf("open")) <= 1
    /\ Cardinality(ExchangesOf("items")) <= 2
    /\ Cardinality(ExchangesOf("query")) <= 3
    /\ (nb = "chesapeake" /\ Completed("query")) =>
        /\ Cardinality(SearchesOf("query")) = 1
        /\ Cardinality(TokenExchanges) <= 1
        /\ SignedHrefs # {} => Cardinality(TokenExchanges) = 1
        /\ \A k \in TokenExchanges : http[k].cell = "query"
        /\ \A i \in DOMAIN ns["items"] : <<i, "data">> \in SignedHrefs

C12_Witness ==
    /\ nb = "chesapeake"
    /\ Completed("query")
    /\ Cardinality(SignedHrefs) = 2
    /\ Cardinality(TokenExchanges) = 1

(***************************************************************************)
(* C13 (as claimed): at every moment at most one HTTP request caused by    *)
(* the notebook is outstanding, and what follows a request starts only     *)
(* after its response: no request is outstanding once the run has moved    *)
(* past the cell that caused it.                                           *)
(***************************************************************************)
C13_OneRequestOutstanding ==
    /\ Cardinality(inflight) <= 1
    /\ \A r \in inflight :
        /\ status = "running"
        /\ pc \in DOMAIN Cells(nb)
        /\ r.cell = Cells(nb)[pc]

(***************************************************************************)
(* C13 (amended): the kernel executes synchronously and sequentially: at   *)
(* every moment at most one HTTP request sent by the kernel is             *)
(* outstanding, it belongs to the cell being executed, and while it is     *)
(* outstanding nothing else of the kernel proceeds: the statement after a  *)
(* request starts only once its response (or failure) has arrived, and no  *)
(* callback runs meanwhile.  The requests the displayed outputs cause (the *)
(* preview image, the tiles of a folium map) are sent by the front end     *)
(* once the output is displayed; they are outstanding concurrently with    *)
(* one another and with the requests of the later cells, which do not wait *)
(* for them.                                                               *)
(***************************************************************************)
KernelOneAtATime ==
    /\ Cardinality(KernelRequests) <= 1
    /\ \A r \in KernelRequests :
        /\ status = "running"
        /\ pc \in DOMAIN Cells(nb)
        /\ r.cell = Cells(nb)[pc]
        /\ ExchangesOf(r.cell) = {}
    /\ \A r \in inflight \ KernelRequests :
        /\ nb = "data_api"
        /\ Executed(r.cell)
        /\ \E o \in OutputsOf(r.cell) : r \in Loads(outputs[o])

\* a step taken while the kernel waits either leaves the kernel alone or is
\* the arrival of the response, logged as the next exchange
KernelWaits ==
    KernelRequests # {} =>
        \/ UNCHANGED <<pc, status, ns, http, outputs, calls, KernelRequests>>
        \/ /\ KernelRequests' = {}
           /\ Len(http') > Len(http)
           /\ \A r \in KernelRequests :
                /\ http'[Len(http) + 1].cell = r.cell
                /\ http'[Len(http) + 1].method = r.method
                /\ http'[Len(http) + 1].url = r.url

C13_KernelSynchronous == [](KernelOneAtATime) /\ [][KernelWaits]_vars

C13_Witness ==
    /\ nb = "data_api"
    /\ \E r \in KernelRequests : r.cell = "mosaic_tiles"
    /\ Cardinality(inflight \ KernelRequests) = 2

(***************************************************************************)
(* C14: provided every HTTP call of the kernel eventually returns, every   *)
(* run of every notebook terminates (all cells done, or a cell raised),    *)
(* and every selection message finds its invocation of browse completed.   *)
(***************************************************************************)
C14_RunTerminates ==
    /\ <>(status \in {"done", "error"} /\ KernelRequests = {})
    /\ (msgs # << >>) ~> (msgs = << >>)

C14_Witness ==
    /\ nb = "chesapeake"
    /\ status = "done"
    /\ Len(ns["datetimes"]) = MaxDatetimes
    /\ \E o \in OutputsOf("plot") : outputs[o].what = "fig"

(***************************************************************************)
(* The colormap                                                            *)
(***************************************************************************)
\* the class value a key of the legend stands for
ClassValue(key) ==
    CASE key = "0" -> 0 [] key = "1" -> 1 [] key = "2" -> 2 [] key = "255" -> 255

\* a colour of the legend scaled from 0..255 to 0..1
Scaled(rgba) == [i \in DOMAIN rgba |-> [num |-> rgba[i], den |-> 255]]

(***************************************************************************)
(* C15 (as claimed): for every class value v that is a key of the classmap *)
(* (the nodata key 255 included), the colour at colormap index v, which is *)
(* the colour drawn for raster value v under NoNorm, is classmap[v] scaled *)
(* to 0..1.                                                                *)
(***************************************************************************)
C15_ColourAtIndexOfValue ==
    (nb = "chesapeake" /\ Completed("colormap")) =>
        \A i \in DOMAIN ns["classmap"].entries :
            LET v == ClassValue(ns["classmap"].entries[i].key)
                colour == Scaled(ns["classmap"].entries[i].rgba)
            IN  /\ v + 1 \in DOMAIN ns["cmap"]
                /\ ns["cmap"][v + 1] = colour
                /\ NoNormColor(ns["cmap"], v) = colour

(***************************************************************************)
(* C15 (amended): the colormap holds the colours of the classmap by        *)
(* position, not by key: colormap index i is the (i+1)-th colour of the    *)
(* legend in response order, scaled from 0..255 to 0..1, and the colormap  *)
(* has as many colours as the legend has entries.  For a class value v     *)
(* whose key is the (v+1)-th of the legend (0..17 in the legend of         *)
(* chesapeake-lu) the colour at index v, drawn for raster value v under    *)
(* NoNorm, is classmap[v].  The nodata key 255 comes last: its colour is   *)
(* at the last index N - 1, not at index 255, and raster value 255 is      *)
(* drawn with it because values above N - 1 take the last colour.          *)
(***************************************************************************)
C15_ColoursByPosition ==
    (nb = "chesapeake" /\ Completed("colormap")) =>
        LET entries == ns["classmap"].entries
            cmap == ns["cmap"]
            N == Len(cmap)
        IN  /\ N = Len(entries)
            /\ \A i \in DOMAIN entries :
                /\ cmap[i] = Scaled(entries[i].rgba)
                /\ ClassValue(entries[i].key) = i - 1 =>
                    NoNormColor(cmap, i - 1) = Scaled(entries[i].rgba)
            /\ (N > 0 /\ entries[N].key = "255") =>
                /\ 255 + 1 \notin DOMAIN cmap
                /\ cmap[N] = Scaled(entries[N].rgba)
                /\ NoNormColor(cmap, 255) = Scaled(entries[N].rgba)
            /\ Completed("plot") => ns["fig"].image.cmap = cmap

C15_Witness ==
    /\ nb = "chesapeake"
    /\ Completed("plot")
    /\ Len(ns["cmap"]) = 4
    /\ ns["classmap"].entries[4].key = "255"
    /\ ns["cmap"][3] = Scaled(<<115, 0, 0, 255>>)

(***************************************************************************)
(* C16: a TileJSON object is read-only: from the response that delivered   *)
(* it to the map that got its template, no field of it is written (the     *)
(* item's TileJSON r stays as received for the rest of the run), and the   *)
(* template of the layer added to the map is the first element of its      *)
(* "tiles" list.                                                           *)
(***************************************************************************)
\* the Planetary Computer layer of a folium map: the one after the base layer
DataLayer(m) == m.layers[2]

C16_TileJSONReadOnly ==
    nb = "data_api" =>
        /\ \A a \in access : a.obj = Obj("r", "item_tilejson") => a.mode # "write"
        /\ Completed("item_tilejson") =>
            \E k \in ExchangesOf("item_tilejson") : ns["r"] = http[k].resp.body
        /\ Completed("item_tiles") =>
            \E k \in ExchangesOf("item_tilejson") :
                /\ http[k].resp.body.tiles # << >>
                /\ \/ ns["tiles"] = http[k].resp.body.tiles[1]
                   \/ Completed("mosaic_tiles")
        /\ Completed("item_map") =>
            \E k \in ExchangesOf("item_tilejson") :
                DataLayer(ShownBy("item_map", "m")).tiles = http[k].resp.body.tiles[1]
        /\ Completed("mosaic_map") =>
            \E k \in ExchangesOf("mosaic_tiles") :
                DataLayer(ShownBy("mosaic_map", "m")).tiles = http[k].resp.body.tiles[1]

C16_Witness ==
    /\ nb = "data_api"
    /\ Completed("item_map")
    /\ Len(ns["r"].tiles) = 2
    /\ ns["r"].tiles[1] # ns["r"].tiles[2]
    /\ DataLayer(ns["m"]).tiles = ns["r"].tiles[1]

(***************************************************************************)
(* C17: in the Chesapeake query cell, for a non-empty list datetimes,      *)
(* "Fetching <entry>" is printed once per entry, in order, the search left *)
(* by the loop is the one built for the last entry, results are fetched    *)
(* once, after the loop, from that search, items is afterwards the list of *)
(* the items of that search, and the empty dict first bound to items is    *)
(* never read.                                                             *)
(***************************************************************************)
\* what the query cell printed under a label, in order
Printed(label) ==
    LET idx == {o \in OutputsOf("query") : outputs[o].what = label}
    IN  [i \in 1..Cardinality(idx) |->
            outputs[CHOOSE o \in idx : Cardinality({p \in idx : p <= o}) = i].value]

C17_LastSearchOnly ==
    (nb = "chesapeake" /\ Bound("datetimes") /\ ns["datetimes"] # << >>
        /\ Executed("query")) =>
        LET datetimes == ns["datetimes"]
            last == datetimes[Len(datetimes)]
            posts == {k \in ExchangesOf("query") : http[k].url = SearchUrl}
        IN  /\ ns["search"].datetime = last
            /\ Cardinality(posts) = 1
            /\ \A a \in access :
                (a.unit = "query" /\ a.obj.name = "items") => a.mode # "read"
            /\ Printed("Fetching") = [i \in DOMAIN datetimes |-> <<datetimes[i]>>]
            /\ Completed("query") =>
                \E k \in SearchesOf("query") :
                    LET features == http[k].resp.body.features
                    IN  /\ Len(ns["items"]) = Len(features)
                        /\ \A i \in DOMAIN features :
                            /\ ns["items"][i].id = features[i].id
                            /\ ns["items"][i].properties.start_datetime = last
                        /\ Printed("Returned") = << [i \in DOMAIN features |-> features[i].id] >>

C17_Witness ==
    /\ nb = "chesapeake"
    /\ Completed("query")
    /\ Len(ns["datetimes"]) = 2
    /\ ns["datetimes"][1] # ns["datetimes"][2]
    /\ Len(ns["items"]) = 2

(***************************************************************************)
(* C18: when the browser widget is created with a non-empty item list,     *)
(* browse runs once for the first item before any user selection, so the   *)
(* first display already shows the map centred on the first item (index 0  *)
(* of the dropdown) with its footprint in the layer; and from then on the  *)
(* map and the layer show the item the dropdown widget holds, which is the *)
(* item selected in the front end whenever no selection message is on its  *)
(* way.                                                                    *)
(***************************************************************************)
C18_InitialCallShowsFirstItem ==
    (nb = "browser" /\ Completed("browser") /\ ns["items"] # << >>) =>
        LET items == ns["items"]
            widget == ns["browse"].widget
        IN  /\ calls # << >>
            /\ calls[1] = Call("browser", 1)
            /\ ShownBy("browser", "m").center = CentreOf(items[1])
            /\ ShownBy("browser", "interactive").data = items[1].geometry
            /\ widget.index \in DOMAIN items
            /\ ns["m"].center = CentreOf(items[widget.index])
            /\ ns["layer"].data = items[widget.index].geometry
            /\ calls[Len(calls)].index = widget.index
            /\ (CallbackCalls = {} /\ msgs = << >>) => (selected = 1 /\ widget.index = 1)
            /\ msgs = << >> => widget.index = selected

C18_Witness ==
    /\ nb = "browser"
    /\ Completed("browser")
    /\ Len(ns["items"]) = 2
    /\ calls = << Call("browser", 1) >>
    /\ selected = 1
    /\ ns["m"].center = CentreOf(ns["items"][1])
    /\ ns["m"].center # <<0, 0>>

(***************************************************************************)
(* The two sections of the Data API notebook                               *)
(***************************************************************************)
\* the item's TileJSON as its request delivered it
ItemTileJSON == http[CHOOSE k \in ExchangesOf("item_tilejson") : TRUE].resp.body

\* the mosaic's TileJSON as its request delivered it
MosaicTileJSON == http[CHOOSE k \in ExchangesOf("mosaic_tiles") : TRUE].resp.body

\* the centre the first map is given
ItemCentre ==
    << (ns["item"].bbox[2] + ns["item"].bbox[4]) \div 2,
       (ns["item"].bbox[1] + ns["item"].bbox[3]) \div 2 >>

\* each map has the layer of its own section
MapsOfOwnSection ==
    /\ Completed("item_map") =>
        /\ DataLayer(ShownBy("item_map", "m")).tiles = ItemTileJSON.tiles[1]
        /\ ShownBy("item_map", "m").location = ItemCentre
        /\ ~Completed("mosaic_tiles") => ns["tiles"] = ItemTileJSON.tiles[1]
        /\ ~Completed("mosaic_map") =>
            (ns["m"] = ShownBy("item_map", "m") /\ ns["center"] = ItemCentre)
    /\ Completed("mosaic_map") =>
        /\ DataLayer(ShownBy("mosaic_map", "m")).tiles = MosaicTileJSON.tiles[1]
        /\ DataLayer(ShownBy("mosaic_map", "m")).tiles # ItemTileJSON.tiles[1]
        /\ DataLayer(ShownBy("item_map", "m")).tiles # MosaicTileJSON.tiles[1]
        /\ ShownBy("mosaic_map", "m").location = Reversed(Centroid(ns["aoi"]))

(***************************************************************************)
(* C19 (as claimed): in a top-to-bottom run of the Data API notebook the   *)
(* names r, tiles, center and m are each rebound between the single-item   *)
(* section and the mosaic section, and each map is built from the binding  *)
(* of its own section.                                                     *)
(***************************************************************************)
C19_AllFourRebound ==
    /\ nb = "data_api" => MapsOfOwnSection
    /\ (nb = "data_api" /\ Completed("mosaic_map")) =>
        /\ ns["r"] # ItemTileJSON
        /\ ns["tiles"] # ItemTileJSON.tiles[1]
        /\ ns["center"] # ItemCentre
        /\ ns["m"] # ShownBy("item_map", "m")

(***************************************************************************)
(* C19 (amended): in a top-to-bottom run of the Data API notebook the      *)
(* names tiles, center and m are each rebound in the mosaic section, and   *)
(* each map is built from the binding made in its own section: the layer   *)
(* of the first map is the template of the item's TileJSON, the layer of   *)
(* the second map the template of the mosaic's TileJSON, never the other   *)
(* way round.  The name r is not rebound in the mosaic section (which      *)
(* binds r_register and leaves its TileJSON response unnamed): r is bound  *)
(* twice within the single-item section, to the item response and then to  *)
(* the item's TileJSON, which it holds to the end of the run.              *)
(***************************************************************************)
C19_ThreeReboundNotR ==
    nb = "data_api" =>
        /\ MapsOfOwnSection
        /\ (Completed("item") /\ ~Executed("item_tilejson") /\ KernelRequests = {}) =>
            \E k \in ExchangesOf("item") : ns["r"] = http[k].resp
        /\ Completed("item_tilejson") => ns["r"] = ItemTileJSON
        /\ Completed("register") =>
            \E k \in ExchangesOf("register") : ns["r_register"] = http[k].resp
        /\ Completed("mosaic_tiles") =>
            /\ ns["tiles"] = MosaicTileJSON.tiles[1]
            /\ ns["tiles"] # ItemTileJSON.tiles[1]
        /\ Completed("mosaic_map") =>
            /\ ns["center"] = Centroid(ns["aoi"])
            /\ ns["center"] # ItemCentre
            /\ ns["m"] = ShownBy("mosaic_map", "m")
            /\ ns["m"] # ShownBy("item_map", "m")

C19_Witness ==
    /\ nb = "data_api"
    /\ Completed("mosaic_map")
    /\ ns["r"] = ItemTileJSON
    /\ DataLayer(ns["m"]).tiles = MosaicTileJSON.tiles[1]
    /\ DataLayer(ShownBy("item_map", "m")).tiles = ns["r"].tiles[1]
    /\ Len(MosaicTileJSON.tiles) = 2

(***************************************************************************)
(* C20: every map centre is given in (latitude, longitude) order although  *)
(* bbox and geometry are in (longitude, latitude) order: the first map is  *)
(* centred at ((bbox[1]+bbox[3])/2, (bbox[0]+bbox[2])/2), inside the       *)
(* item's bounding box; the mosaic map at (centroid.y, centroid.x) of the  *)
(* area of interest; the browser map at the reversed first coordinate of   *)
(* the centroid of the item the dropdown holds.                            *)
(***************************************************************************)
\* a (latitude, longitude) pair lies in a (west, south, east, north) box
InBox(latlon, box) ==
    /\ box[2] <= latlon[1] /\ latlon[1] <= box[4]
    /\ box[1] <= latlon[2] /\ latlon[2] <= box[3]

\* the (west, south, east, north) box of a polygon's ring
BoxOf(geom) ==
    LET ring == geom.coordinates[1]
        lons == {ring[i][1] : i \in DOMAIN ring}
        lats == {ring[i][2] : i \in DOMAIN ring}
    IN  << Min(lons), Min(lats), Max(lons), Max(lats) >>

\* the middle (latitude, longitude) of a (west, south, east, north) box
MidLatLon(box) == << (box[2] + box[4]) \div 2, (box[1] + box[3]) \div 2 >>

C20_CentresInLatLonOrder ==
    /\ (nb = "data_api" /\ Completed("item_map")) =>
        LET m == ShownBy("item_map", "m")
        IN  /\ m.location = MidLatLon(ns["item"].bbox)
            /\ InBox(m.location, ns["item"].bbox)
    /\ (nb = "data_api" /\ Completed("mosaic_map")) =>
        LET m == ShownBy("mosaic_map", "m")
        IN  /\ m.location = MidLatLon(BoxOf(ns["aoi"]))
            /\ m.location = << ns["center"][2], ns["center"][1] >>
            /\ InBox(m.location, BoxOf(ns["aoi"]))
    /\ (nb = "browser" /\ Completed("browser") /\ ns["items"] # << >>) =>
        LET item == ns["items"][ns["browse"].widget.index]
        IN  /\ ns["m"].center = MidLatLon(item.bbox)
            /\ InBox(ns["m"].center, item.bbox)
            /\ ~InBox(<<ns["m"].center[2], ns["m"].center[1]>>, item.bbox)

C20_Witness ==
    /\ nb = "browser"
    /\ CallbackCalls # {}
    /\ ns["browse"].widget.index = 2
    /\ ns["m"].center = MidLatLon(BoxOf(ns["items"][2].geometry))
    /\ ns["m"].center[1] # ns["m"].center[2]

(***************************************************************************)
(* C21: in the Chesapeake notebook the colour-bar ticks and labels are     *)
(* aligned with the colormap: there are as many labels as ticks as         *)
(* classmap entries (the ticks being the colormap's indices), and the      *)
(* label at tick i is the description of the class whose value is i, or    *)
(* 'nodata' when no class has value i.                                     *)
(***************************************************************************)
\* the classes of the collection whose value is i
ClassesValued(i) ==
    LET classes == ns["collection"].classes
    IN  {classes[k] : k \in {j \in DOMAIN classes : classes[j].value = i}}

C21_TicksAndLabelsAligned ==
    (nb = "chesapeake" /\ Completed("plot")) =>
        LET colorbar == ShownBy("plot", "fig").colorbar
            ticks == colorbar.ticks
            labels == colorbar.labels
            N == Len(ns["classmap"].entries)
        IN  /\ Len(labels) = Len(ticks)
            /\ Len(ticks) = N
            /\ Len(ShownBy("plot", "fig").image.cmap) = N
            /\ \A p \in 1..N :
                /\ ticks[p] = p - 1
                /\ IF ClassesValued(ticks[p]) = {}
                   THEN labels[p] = "nodata"
                   ELSE \E c \in ClassesValued(ticks[p]) : labels[p] = c.description

C21_Witness ==
    /\ nb = "chesapeake"
    /\ Completed("plot")
    /\ ShownBy("plot", "fig").colorbar.labels =
           << "nodata", "Impervious Roads", "Impervious Non-Roads", "nodata" >>

====
